---- MODULE Spec2Model ----
(***************************************************************************)
(* Tabu search for the assignment problem (HeuristicaTabu.py, BuscaTabu).  *)
(* One BuscaTabu instance is constructed from (matriz_custos,              *)
(* tamanho_tabu, max_iter); busca_tabu may then be called repeatedly.      *)
(* Positions are 0-based as in the source: a solution of length n is a     *)
(* sequence s with s[i+1] the project of company i; a move is <<i, j>>.    *)
(***************************************************************************)
EXTENDS Integers, Sequences, FiniteSets, TLC

(* ----------------------------- bounds ---------------------------------- *)
MaxTabu == 3          \* tamanho_tabu ranges over 1..MaxTabu
MaxIter == 23         \* the long runs use max_iter = MaxIter
IterCurto == 4        \* max_iter of the runs on the largest matrices
MaxChamadas == 2      \* busca_tabu calls made on one instance
Excedente == 1        \* recorded moves remembered beyond tamanho_tabu

(* ------------------------- program constants --------------------------- *)
LimiteTempo == 15     \* seconds, line 91
LimiteEstagnacao == 20 \* line 132

(* float('inf') of line 101; every cost compares below it *)
Inf == -1

(* ------------------------------ inputs --------------------------------- *)
(* a matrix on which the search stagnates above the optimum *)
MatrizLonga == << <<1, 4, 1, 1>>, <<1, 4, 2, 3>>, <<4, 1, 0, 3>>, <<1, 0, 4, 0>> >>

Matrizes ==
  { << <<7>> >>,
    << <<1, 2>>, <<3, 4>> >>,
    << <<1, 5>>, <<5, 1>> >>,
    << <<4, 1, 3>>, <<2, 0, 5>>, <<3, 2, 2>> >>,
    << <<1, 1, 1>>, <<1, 1, 1>>, <<1, 1, 1>> >>,
    << <<0, 2, 9>>, <<2, 0, 9>>, <<9, 9, 0>> >>,
    << <<3, 2, 0, 0>>, <<2, 0, 4, 5>>, <<0, 0, 3, 0>>, <<0, 1, 1, 4>> >>,
    MatrizLonga,
    << >>,
    << <<1, 2, 3>>, <<4, 5, 6>> >>,
    << <<1, 2>>, <<3, 4>>, <<5, 6>> >> }

(* the max_iter values an instance is built with, and the number of calls *)
(* made on it: the largest matrices get a single call, and short runs but  *)
(* for MatrizLonga                                                         *)
Iteracoes(m) ==
  IF m = MatrizLonga THEN {MaxIter}
  ELSE IF Len(m) > 3 THEN {IterCurto}
  ELSE {1, MaxIter}

Repeticoes(m) == IF Len(m) > 3 THEN 1 ELSE MaxChamadas

Tempos == {0, LimiteTempo, LimiteTempo + 1}

(* --------------------------- pure functions ---------------------------- *)
Quadrada(m) == Len(m) > 0 /\ \A r \in 1..Len(m) : Len(m[r]) = Len(m)

ElementoTransposto(m, empresa, projeto) == m[projeto + 1][empresa + 1]

(* numpy indexing matriz[empresa, projeto]: a row past the end or a column *)
(* outside -cols..cols-1 raises IndexError; a negative column wraps.       *)
Indexavel(m, empresa, projeto) ==
  /\ empresa < Len(m)
  /\ projeto < Len(m[empresa + 1])
  /\ projeto >= -Len(m[empresa + 1])

Elemento(m, empresa, projeto) ==
  IF projeto >= 0 THEN m[empresa + 1][projeto + 1]
  ELSE m[empresa + 1][Len(m[empresa + 1]) + projeto + 1]

(* the loop of lines 31-34, from position k of enumerate(solucao) on *)
RECURSIVE SomarDesde(_, _, _, _)
SomarDesde(m, solucao, k, custo_total) ==
  IF k >= Len(solucao) THEN [erro |-> FALSE, valor |-> custo_total]
  ELSE IF ~Indexavel(m, k, solucao[k + 1]) THEN [erro |-> TRUE, valor |-> custo_total]
  ELSE SomarDesde(m, solucao, k + 1, custo_total + Elemento(m, k, solucao[k + 1]))

CalcularCusto(m, solucao) == SomarDesde(m, solucao, 0, 0)

(* random.shuffle(list(range(n))) can return any arrangement of 0..n-1 *)
GerarSolucaoInicial(num) ==
  IF num = 0 THEN { <<>> }
  ELSE { s \in [1..num -> 0..(num - 1)] : \A a, b \in 1..num : a # b => s[a] # s[b] }

(* lines 62-63 *)
TrocaParcial(solucao, i, j) ==
  [k \in 1..Len(solucao) |-> IF k = i + 1 THEN solucao[j + 1] ELSE solucao[k]]

Troca(solucao, i, j) ==
  [k \in 1..Len(solucao) |->
     IF k = i + 1 THEN solucao[j + 1]
     ELSE IF k = j + 1 THEN solucao[i + 1]
     ELSE solucao[k]]

(* inner loop of lines 60-67 for a fixed i *)
VizinhosDeInclusivo(solucao, i, num) ==
  [d \in 1..(num - i) |->
     [vizinho |-> Troca(solucao, i, i + d - 1), movimento |-> <<i, i + d - 1>>]]

VizinhosDe(solucao, i, num) ==
  IF i + 1 >= num THEN <<>>
  ELSE [d \in 1..(num - 1 - i) |-> [vizinho |-> Troca(solucao, i, i + d), movimento |-> <<i, i + d>>]]

RECURSIVE VizinhosDesdeInvertido(_, _, _)
VizinhosDesdeInvertido(solucao, i, num) ==
  IF i >= num THEN <<>>
  ELSE VizinhosDesdeInvertido(solucao, i + 1, num) \o VizinhosDe(solucao, i, num)

RECURSIVE VizinhosDesde(_, _, _)
VizinhosDesde(solucao, i, num) ==
  IF i >= num THEN <<>>
  ELSE VizinhosDe(solucao, i, num) \o VizinhosDesde(solucao, i + 1, num)

GerarVizinhanca(solucao, num) == VizinhosDesde(solucao, 0, num)

(* movimento in self.lista_tabu *)
NaListaTabu(movimento, lista) == \E p \in 1..Len(lista) : lista[p] = movimento

(* custo_vizinho < melhor_custo_vizinho, where the latter may be inf *)
MenorOuIgual(custo, limite) == limite = Inf \/ custo <= limite

MenorQue(custo, limite) == limite = Inf \/ custo < limite

(* line 107 *)
ElegivelSemAspiracao(movimento, custo_vizinho, lista, melhor) ==
  ~NaListaTabu(movimento, lista)

ElegivelComE(movimento, custo_vizinho, lista, melhor) ==
  ~NaListaTabu(movimento, lista) /\ custo_vizinho < melhor

Elegivel(movimento, custo_vizinho, lista, melhor) ==
  ~NaListaTabu(movimento, lista) \/ custo_vizinho < melhor

(* lines 104-111: one neighbour against the best one kept so far *)
Avaliar(m, par, lista, melhor, acc) ==
  IF /\ Elegivel(par.movimento, CalcularCusto(m, par.vizinho).valor, lista, melhor)
     /\ MenorQue(CalcularCusto(m, par.vizinho).valor, acc.custo)
  THEN [achou |-> TRUE, vizinho |-> par.vizinho, movimento |-> par.movimento,
        custo |-> CalcularCusto(m, par.vizinho).valor]
  ELSE acc

(* lines 99-111: the scan of the neighbourhood from position k on *)
RECURSIVE Selecionar(_, _, _, _, _, _)
Selecionar(m, vizinhos, k, lista, melhor, acc) ==
  IF k > Len(vizinhos) THEN acc
  ELSE Selecionar(m, vizinhos, k + 1, lista, melhor,
                  Avaliar(m, vizinhos[k], lista, melhor, acc))

Nenhum == [achou |-> FALSE, vizinho |-> <<>>, movimento |-> <<>>, custo |-> Inf]

MelhorVizinho(m, solucao, num, lista, melhor) ==
  Selecionar(m, GerarVizinhanca(solucao, num), 1, lista, melhor, Nenhum)

(* `if melhor_vizinho:` of line 114: None and the empty list are false *)
Verdadeiro(sel) == sel.achou /\ Len(sel.vizinho) > 0

(* lines 119-121 *)
RegistrarSemRemover(lista, movimento, capacidade) == Append(lista, movimento)

RegistrarRemovendoUltimo(lista, movimento, capacidade) ==
  IF Len(lista) + 1 > capacidade THEN lista ELSE Append(lista, movimento)

RegistrarNaFrente(lista, movimento, capacidade) ==
  IF Len(lista) + 1 > capacidade THEN lista ELSE <<movimento>> \o lista

Registrar(lista, movimento, capacidade) ==
  IF Len(Append(lista, movimento)) > capacidade
  THEN Tail(Append(lista, movimento))
  ELSE Append(lista, movimento)

(* line 124 *)
MelhoraInvertida(custo, melhor) == custo > melhor

MelhoraOuIgual(custo, melhor) == custo <= melhor

Melhora(custo, melhor) == custo < melhor

(* line 91 *)
TempoEsgotadoEmMinutos(t) == t > LimiteTempo * 60

TempoEsgotado(t) == t > LimiteTempo

(* range(self.max_iter) of line 89 *)
LacoContinuaMaisUm(i, limite) == i <= limite

LacoContinua(i, limite) == i < limite

(* ------------------------------- state --------------------------------- *)
VARIABLES
  matriz_custos, n, tamanho_tabu, max_iter, lista_tabu,   \* instance fields
  pc,                  \* "idle", "topo", "selecao", "estagnacao", "done", "erro"
  solucao_atual, melhor_solucao, custo_atual, melhor_custo,
  iter_sem_melhorias, iteracao,
  decorrido,           \* time.time() - tempo_inicio as computed at line 91 of
                       \* this iteration; 0 once the iteration has moved on
  retorno,             \* the pair returned by the call, once it has finished
  chamadas,            \* busca_tabu calls started on the instance
  custo_inicial,       \* cost of the initial draw of the running call
  historico,           \* the moves the list held when the call started, then
                       \* those recorded since; the last tamanho_tabu + Excedente
  registrados,         \* how many moves historico has seen (capped)
  ultima,              \* what the last selection step of this call did
  reinicios,           \* diversification restarts of this call
  consulta             \* last calcular_custo call made by an outside caller

campos == <<matriz_custos, n, tamanho_tabu, max_iter>>
locais == <<solucao_atual, melhor_solucao, custo_atual, melhor_custo, iter_sem_melhorias>>
vars == <<matriz_custos, n, tamanho_tabu, max_iter, lista_tabu, pc,
          solucao_atual, melhor_solucao, custo_atual, melhor_custo,
          iter_sem_melhorias, iteracao, decorrido, retorno, chamadas,
          custo_inicial, historico, registrados, ultima, reinicios, consulta>>

SemConsulta == [feita |-> FALSE, solucao |-> <<>>, erro |-> FALSE, valor |-> 0]

(* nothing returned yet by the call in progress *)
SemRetorno == [solucao |-> <<>>, custo |-> 0]

SemSelecao == [tipo |-> "nenhuma", movimento |-> <<>>, era_tabu |-> FALSE]

(* __init__, lines 15-19: no argument is validated *)
Init ==
  /\ matriz_custos \in Matrizes
  /\ n = Len(matriz_custos)
  /\ tamanho_tabu \in 1..MaxTabu
  /\ max_iter \in Iteracoes(matriz_custos)
  /\ lista_tabu = <<>>
  /\ pc = "idle"
  /\ solucao_atual = <<>>
  /\ melhor_solucao = <<>>
  /\ custo_atual = 0
  /\ melhor_custo = 0
  /\ iter_sem_melhorias = 0
  /\ iteracao = 0
  /\ decorrido = 0
  /\ retorno = SemRetorno
  /\ chamadas = 0
  /\ custo_inicial = 0
  /\ historico = <<>>
  /\ registrados = 0
  /\ ultima = SemSelecao
  /\ reinicios = 0
  /\ consulta = SemConsulta

(* lines 78-87 *)
Chamar ==
  /\ pc \in {"idle", "done"}
  /\ chamadas < Repeticoes(matriz_custos)
  /\ chamadas' = chamadas + 1
  /\ \E s \in GerarSolucaoInicial(n) :
       \E c \in {CalcularCusto(matriz_custos, s)} :
         /\ solucao_atual' = s
         /\ melhor_solucao' = s
         /\ IF c.erro
            THEN /\ pc' = "erro"
                 /\ UNCHANGED <<custo_atual, melhor_custo, custo_inicial>>
            ELSE /\ pc' = "topo"
                 /\ custo_atual' = c.valor
                 /\ melhor_custo' = c.valor
                 /\ custo_inicial' = c.valor
  /\ iter_sem_melhorias' = 0
  /\ iteracao' = 0
  /\ decorrido' = 0
  /\ ultima' = SemSelecao
  /\ reinicios' = 0
  /\ retorno' = SemRetorno
  /\ historico' = lista_tabu
  /\ registrados' = Len(lista_tabu)
  /\ UNCHANGED <<campos, lista_tabu, consulta>>

(* line 89 with the range exhausted, then lines 139-142 *)
RetornarFimDoLaco ==
  /\ pc = "topo"
  /\ ~LacoContinua(iteracao, max_iter)
  /\ pc' = "done"
  /\ retorno' = [solucao |-> melhor_solucao, custo |-> melhor_custo]
  /\ UNCHANGED <<campos, lista_tabu, locais, iteracao, decorrido, chamadas,
                 custo_inicial, historico, registrados, ultima, reinicios, consulta>>

(* lines 90-92 with the limit exceeded, then lines 139-142 *)
RetornarPorTempo ==
  /\ pc = "topo"
  /\ LacoContinua(iteracao, max_iter)
  /\ \E t \in Tempos :
       /\ TempoEsgotado(t)
       /\ decorrido' = t
  /\ pc' = "done"
  /\ retorno' = [solucao |-> melhor_solucao, custo |-> melhor_custo]
  /\ UNCHANGED <<campos, lista_tabu, locais, iteracao, chamadas,
                 custo_inicial, historico, registrados, ultima, reinicios, consulta>>

(* lines 90-91 with the limit not exceeded *)
Prosseguir ==
  /\ pc = "topo"
  /\ LacoContinua(iteracao, max_iter)
  /\ \E t \in Tempos :
       /\ ~TempoEsgotado(t)
       /\ decorrido' = t
  /\ pc' = "selecao"
  /\ UNCHANGED <<campos, lista_tabu, locais, iteracao, retorno, chamadas,
                 custo_inicial, historico, registrados, ultima, reinicios, consulta>>

JanelaDe(h, capacidade) ==
  IF Len(h) > capacidade + Excedente THEN Tail(h) ELSE h

(* lines 95-129 when a neighbour was selected *)
Adotar ==
  /\ pc = "selecao"
  /\ \E sel \in {MelhorVizinho(matriz_custos, solucao_atual, n, lista_tabu, melhor_custo)} :
       /\ Verdadeiro(sel)
       /\ solucao_atual' = sel.vizinho
       /\ custo_atual' = sel.custo
       /\ lista_tabu' = Registrar(lista_tabu, sel.movimento, tamanho_tabu)
       /\ IF Melhora(sel.custo, melhor_custo)
          THEN /\ melhor_solucao' = sel.vizinho
               /\ melhor_custo' = sel.custo
               /\ iter_sem_melhorias' = 0
          ELSE /\ iter_sem_melhorias' = iter_sem_melhorias + 1
               /\ UNCHANGED <<melhor_solucao, melhor_custo>>
       /\ historico' = JanelaDe(Append(historico, sel.movimento), tamanho_tabu)
       /\ registrados' = IF registrados < tamanho_tabu + Excedente
                         THEN registrados + 1 ELSE registrados
       /\ ultima' = [tipo |-> "adotado", movimento |-> sel.movimento,
                     era_tabu |-> NaListaTabu(sel.movimento, lista_tabu)]
  /\ pc' = "estagnacao"
  /\ decorrido' = 0
  /\ UNCHANGED <<campos, iteracao, retorno, chamadas, custo_inicial,
                 reinicios, consulta>>

(* lines 95-114 when no neighbour was selected *)
PularContando ==
  /\ pc = "selecao"
  /\ ~Verdadeiro(MelhorVizinho(matriz_custos, solucao_atual, n, lista_tabu, melhor_custo))
  /\ ultima' = [tipo |-> "pulado", movimento |-> <<>>, era_tabu |-> FALSE]
  /\ pc' = "estagnacao"
  /\ decorrido' = 0
  /\ iter_sem_melhorias' = iter_sem_melhorias + 1
  /\ UNCHANGED <<campos, lista_tabu, solucao_atual, melhor_solucao, custo_atual,
                 melhor_custo, iteracao, retorno, chamadas, custo_inicial,
                 historico, registrados, reinicios, consulta>>

Pular ==
  /\ pc = "selecao"
  /\ ~Verdadeiro(MelhorVizinho(matriz_custos, solucao_atual, n, lista_tabu, melhor_custo))
  /\ ultima' = [tipo |-> "pulado", movimento |-> <<>>, era_tabu |-> FALSE]
  /\ pc' = "estagnacao"
  /\ decorrido' = 0
  /\ UNCHANGED <<campos, lista_tabu, locais, iteracao, retorno,
                 chamadas, custo_inicial, historico, registrados, reinicios, consulta>>

(* lines 132-137 with random.random() < 0.3 *)
ReiniciarLimpandoTabu ==
  /\ pc = "estagnacao"
  /\ iter_sem_melhorias > LimiteEstagnacao
  /\ \E s \in GerarSolucaoInicial(n) :
       /\ solucao_atual' = s
       /\ custo_atual' = CalcularCusto(matriz_custos, s).valor
  /\ iter_sem_melhorias' = 0
  /\ iteracao' = iteracao + 1
  /\ reinicios' = reinicios + 1
  /\ lista_tabu' = <<>>
  /\ historico' = <<>>
  /\ registrados' = 0
  /\ pc' = "topo"
  /\ UNCHANGED <<campos, melhor_solucao, melhor_custo, decorrido,
                 retorno, chamadas, custo_inicial, ultima, consulta>>

Reiniciar ==
  /\ pc = "estagnacao"
  /\ iter_sem_melhorias > LimiteEstagnacao
  /\ \E s \in GerarSolucaoInicial(n) :
       /\ solucao_atual' = s
       /\ custo_atual' = CalcularCusto(matriz_custos, s).valor
  /\ iter_sem_melhorias' = 0
  /\ iteracao' = iteracao + 1
  /\ reinicios' = reinicios + 1
  /\ pc' = "topo"
  /\ UNCHANGED <<campos, lista_tabu, melhor_solucao, melhor_custo, decorrido,
                 retorno, chamadas, custo_inicial, historico, registrados, ultima,
                 consulta>>

(* lines 132-134 when the counter is low or random.random() >= 0.3 *)
NaoReiniciar ==
  /\ pc = "estagnacao"
  /\ iteracao' = iteracao + 1
  /\ pc' = "topo"
  /\ UNCHANGED <<campos, lista_tabu, locais, decorrido, retorno, chamadas,
                 custo_inicial, historico, registrados, ultima, reinicios, consulta>>

Passo ==
  \/ RetornarFimDoLaco
  \/ RetornarPorTempo
  \/ Prosseguir
  \/ Adotar
  \/ Pular
  \/ Reiniciar
  \/ NaoReiniciar

Next == Chamar \/ Passo

Spec == Init /\ [][Next]_vars

(* calcular_custo called directly by an outside caller on a new instance; *)
(* the function keeps no state, so one call per behaviour covers them all *)
Consultas ==
  UNION { [1..k -> -1..n] : k \in 1..(n + 1) } \cup { <<>> }

ConsultarCusto ==
  /\ pc = "idle"
  /\ ~consulta.feita
  /\ \E s \in Consultas :
       LET c == CalcularCusto(matriz_custos, s) IN
         consulta' = [feita |-> TRUE, solucao |-> s, erro |-> c.erro,
                      valor |-> IF c.erro THEN 0 ELSE c.valor]
  /\ UNCHANGED <<campos, lista_tabu, pc, locais, iteracao, decorrido, retorno,
                 chamadas, custo_inicial, historico, registrados, ultima, reinicios>>

SpecCusto == Init /\ [][ConsultarCusto]_vars

(* ------------------------------ properties ----------------------------- *)
EmExecucao == pc \in {"topo", "selecao", "estagnacao"}

MatrizValida == Quadrada(matriz_custos) /\ n >= 2

EhPermutacao(s, num) ==
  /\ Len(s) = num
  /\ \A v \in 0..(num - 1) : Cardinality({k \in 1..num : s[k] = v}) = 1

(* the sum of matrix[i][s[i]] over the agents i, written directly *)
RECURSIVE SomaLiteral(_, _, _)
SomaLiteral(m, s, i) ==
  IF i = 0 THEN 0 ELSE SomaLiteral(m, s, i - 1) + m[i][s[i] + 1]

Ultimos(h, k) == SubSeq(h, Len(h) - k + 1, Len(h))

Minimo(a, b) == IF a < b THEN a ELSE b

(* C1: once busca_tabu has started, the current solution, the best-known   *)
(* solution and the returned solution are permutations of 0..n-1.          *)
C1_Permutacoes ==
  pc # "idle" =>
    /\ EhPermutacao(solucao_atual, n)
    /\ EhPermutacao(melhor_solucao, n)
    /\ (pc = "done" => EhPermutacao(retorno.solucao, n))

C1_Witness ==
  /\ pc = "done" /\ n = 3
  /\ reinicios > 0
  /\ ultima.tipo = "adotado"
  /\ retorno.custo < custo_inicial

(* C2: within one call no step raises the best-known cost, and it never    *)
(* exceeds the cost of the initial draw; the returned cost is that cost.   *)
C2_MelhorCustoNaoAumenta ==
  [][EmExecucao =>
       /\ melhor_custo' <= melhor_custo
       /\ melhor_custo' <= custo_inicial'
       /\ (pc' = "done" => retorno'.custo <= custo_inicial')]_vars

C2_Witness ==
  /\ pc = "done"
  /\ retorno.custo < custo_inicial
  /\ reinicios > 0
  /\ custo_atual > melhor_custo

(* what is left of the running call: the iterations not yet started, and  *)
(* within an iteration the steps not yet taken                             *)
Medida ==
  CASE pc = "topo" -> 3 * (max_iter - iteracao) + 3
    [] pc = "selecao" -> 3 * (max_iter - iteracao) + 2
    [] pc = "estagnacao" -> 3 * (max_iter - iteracao) + 1
    [] OTHER -> 0

(* C3: for a square matrix with n >= 2 a call never errs and never starts  *)
(* more than max_iter iterations; every step of a running call brings it   *)
(* strictly nearer to its end, so it cannot loop forever, and it ends by   *)
(* returning the best-known pair.                                          *)
C3_Termina ==
  /\ [](MatrizValida => pc # "erro" /\ iteracao <= max_iter)
  /\ [][MatrizValida /\ EmExecucao =>
          /\ Medida' < Medida
          /\ Medida' >= 0
          /\ pc' \in {"topo", "selecao", "estagnacao", "done"}
          /\ (pc' = "done" =>
                retorno' = [solucao |-> melhor_solucao, custo |-> melhor_custo])]_vars

C3_Witness ==
  /\ MatrizValida
  /\ pc = "done"
  /\ iteracao = max_iter
  /\ max_iter = MaxIter
  /\ chamadas = MaxChamadas

(* C4: the tabu list never holds more than tamanho_tabu entries, in any    *)
(* call made on the instance.                                              *)
C4_ListaLimitada == Len(lista_tabu) <= tamanho_tabu

C4_Witness ==
  /\ chamadas = 2
  /\ registrados > tamanho_tabu
  /\ Len(lista_tabu) = tamanho_tabu
  /\ tamanho_tabu > 1

(* C5 as stated: once more than tamanho_tabu moves were recorded, the list *)
(* is the last tamanho_tabu of them in order and none of the older ones    *)
(* is a member of the list. Stated for the first call on an instance, so   *)
(* that the list carried over from an earlier call plays no part.          *)
C5_FifoSemOsAntigos ==
  (chamadas = 1 /\ Len(historico) > tamanho_tabu) =>
    /\ lista_tabu = Ultimos(historico, tamanho_tabu)
    /\ \A p \in 1..(Len(historico) - tamanho_tabu) :
         ~NaListaTabu(historico[p], lista_tabu)

(* C5 amended: the list is the last tamanho_tabu recorded moves in order;  *)
(* an older recorded move is a member exactly when the same move is among  *)
(* those last tamanho_tabu.                                                *)
C5_FifoEmOrdem ==
  /\ lista_tabu = Ultimos(historico, Minimo(Len(historico), tamanho_tabu))
  /\ \A p \in 1..(Len(historico) - tamanho_tabu) :
       NaListaTabu(historico[p], lista_tabu) <=>
         \E q \in (Len(historico) - tamanho_tabu + 1)..Len(historico) :
           historico[q] = historico[p]

C5_Witness ==
  /\ Len(historico) = tamanho_tabu + Excedente
  /\ tamanho_tabu > 1
  /\ \A p \in 1..Excedente : ~NaListaTabu(historico[p], lista_tabu)

(* the neighbourhood of the current solution, its costs and the selection  *)
(* rule, written from the rule and not from the scan                       *)
VizinhosAtuais == GerarVizinhanca(solucao_atual, n)

CustoDoVizinho(k) == SomaLiteral(matriz_custos, VizinhosAtuais[k].vizinho, n)

MovimentoTabu(k) == \E p \in DOMAIN lista_tabu : lista_tabu[p] = VizinhosAtuais[k].movimento

VizinhoElegivel(k) == ~MovimentoTabu(k) \/ CustoDoVizinho(k) < melhor_custo

PrimeiroMaisBarato(k) ==
  /\ VizinhoElegivel(k)
  /\ \A q \in 1..Len(VizinhosAtuais) :
       VizinhoElegivel(q) =>
         \/ CustoDoVizinho(k) < CustoDoVizinho(q)
         \/ CustoDoVizinho(k) = CustoDoVizinho(q) /\ k <= q

(* C6: a neighbour whose move is tabu but whose cost is strictly below the *)
(* best-known cost is eligible, and when it is the first cheapest eligible *)
(* neighbour the selection step adopts it.                                 *)
C6_Aspiracao ==
  [][pc = "selecao" =>
       \A k \in 1..Len(VizinhosAtuais) :
         (MovimentoTabu(k) /\ CustoDoVizinho(k) < melhor_custo /\ PrimeiroMaisBarato(k)) =>
           /\ solucao_atual' = VizinhosAtuais[k].vizinho
           /\ custo_atual' = CustoDoVizinho(k)
           /\ ultima'.tipo = "adotado"
           /\ ultima'.movimento = VizinhosAtuais[k].movimento]_vars

C6_Witness ==
  /\ pc = "estagnacao"
  /\ chamadas = 1
  /\ ultima.tipo = "adotado"
  /\ ultima.era_tabu
  /\ custo_atual = melhor_custo

(* C7: the current cost and the best-known cost are the sums of            *)
(* matrix[i][s[i]] for the current and the best-known solution, and so is  *)
(* the returned cost for the returned solution.                            *)
C7_CustosCoerentes ==
  (EmExecucao \/ pc = "done") =>
    /\ custo_atual = SomaLiteral(matriz_custos, solucao_atual, n)
    /\ melhor_custo = SomaLiteral(matriz_custos, melhor_solucao, n)
    /\ (pc = "done" => retorno.custo = SomaLiteral(matriz_custos, retorno.solucao, n))

C7_Witness ==
  /\ pc = "done" /\ n = 3
  /\ reinicios > 0
  /\ custo_atual # melhor_custo
  /\ retorno.custo < custo_inicial
  /\ retorno.solucao # <<0, 1, 2>>

(* C8: every call starts its first iteration with an empty tabu list.      *)
C8_SemPersistencia ==
  (pc = "topo" /\ iteracao = 0) => lista_tabu = <<>>

(* C9: for an empty or non-square matrix no instance exists on which       *)
(* busca_tabu can be run.                                                  *)
C9_ConstrucaoRejeita ==
  ~Quadrada(matriz_custos) => pc \notin {"idle", "topo", "selecao", "estagnacao", "done"}

(* C10: calcular_custo reports an error for a solution whose length is not *)
(* n or that holds a project outside 0..n-1.                               *)
C10_CustoRejeita ==
  (/\ consulta.feita
   /\ \/ Len(consulta.solucao) # n
      \/ \E k \in 1..Len(consulta.solucao) : consulta.solucao[k] \notin 0..(n - 1))
  => consulta.erro

(* C11: on a 1x1 matrix the neighbourhood is empty, no swap is adopted,    *)
(* nothing is recorded, no restart happens, and the call returns <<0>>     *)
(* with cost matrix[0][0].                                                 *)
C11_UmPorUm ==
  (n = 1 /\ Quadrada(matriz_custos) /\ pc # "idle") =>
    /\ pc # "erro"
    /\ GerarVizinhanca(solucao_atual, n) = <<>>
    /\ solucao_atual = <<0>> /\ melhor_solucao = <<0>>
    /\ ultima.tipo # "adotado"
    /\ lista_tabu = <<>>
    /\ reinicios = 0 /\ iter_sem_melhorias = 0
    /\ (pc = "done" => retorno = [solucao |-> <<0>>, custo |-> matriz_custos[1][1]])

C11_Witness ==
  /\ n = 1 /\ Quadrada(matriz_custos)
  /\ pc = "done"
  /\ chamadas = MaxChamadas
  /\ iteracao = MaxIter
  /\ ultima.tipo = "pulado"
  /\ retorno.custo = 7

(* C12: the neighbour adopted by a selection step is the first cheapest    *)
(* eligible neighbour of the current solution in enumeration order; in     *)
(* particular it is eligible, so a tabu neighbour whose cost is not below  *)
(* the best-known cost is never adopted.                                   *)
C12_Selecao ==
  [][(pc = "selecao" /\ ultima'.tipo = "adotado") =>
       \E k \in 1..Len(VizinhosAtuais) :
         /\ PrimeiroMaisBarato(k)
         /\ (MovimentoTabu(k) => CustoDoVizinho(k) < melhor_custo)
         /\ solucao_atual' = VizinhosAtuais[k].vizinho
         /\ custo_atual' = CustoDoVizinho(k)
         /\ ultima'.movimento = VizinhosAtuais[k].movimento]_vars

(* all costs tie: (0,1) is tabu and not below best, (0,2) is taken before  *)
(* the equally cheap (1,2)                                                 *)
C12_Witness ==
  /\ matriz_custos = << <<1, 1, 1>>, <<1, 1, 1>>, <<1, 1, 1>> >>
  /\ pc = "estagnacao"
  /\ ultima.tipo = "adotado"
  /\ ultima.movimento = <<0, 2>>
  /\ lista_tabu = << <<0, 1>>, <<0, 2>> >>

(* position of the pair i < j in the enumeration by ascending i, then j *)
PosicaoDoPar(i, j, num) == i * (num - 1) - (i * (i - 1)) \div 2 + (j - i)

(* C13: the neighbourhood of the current solution has n*(n-1)/2 entries;   *)
(* the entry for i < j, in ascending i then ascending j, is the solution   *)
(* with exactly positions i and j exchanged and the move <<i, j>>; every   *)
(* move in the tabu list is such a canonical pair.                         *)
C13_Vizinhanca ==
  (pc \in {"topo", "selecao", "estagnacao", "done"}) =>
    /\ Len(VizinhosAtuais) = (n * (n - 1)) \div 2
    /\ \A i \in 0..(n - 1) : \A j \in (i + 1)..(n - 1) :
         LET par == VizinhosAtuais[PosicaoDoPar(i, j, n)] IN
           /\ par.movimento = <<i, j>>
           /\ Len(par.vizinho) = n
           /\ par.vizinho[i + 1] = solucao_atual[j + 1]
           /\ par.vizinho[j + 1] = solucao_atual[i + 1]
           /\ \A k \in 1..n : (k # i + 1 /\ k # j + 1) => par.vizinho[k] = solucao_atual[k]
    /\ \A p \in 1..Len(lista_tabu) :
         /\ Len(lista_tabu[p]) = 2
         /\ 0 <= lista_tabu[p][1]
         /\ lista_tabu[p][1] < lista_tabu[p][2]
         /\ lista_tabu[p][2] < n

C13_Witness ==
  /\ n = 4
  /\ pc = "selecao"
  /\ Len(lista_tabu) = 3
  /\ solucao_atual # <<0, 1, 2, 3>>
  /\ Len(VizinhosAtuais) = 6

(* C14: after an adoption the adopted move is in the tabu list until the   *)
(* next selection step, restart or not, and a selection step adopts the    *)
(* move of the previous iteration again only for a cost strictly below the *)
(* best-known cost.                                                        *)
C14_SemReusoImediato ==
  /\ []((EmExecucao /\ ultima.tipo = "adotado") =>
          NaListaTabu(ultima.movimento, lista_tabu))
  /\ [][(/\ pc = "selecao"
         /\ ultima.tipo = "adotado"
         /\ ultima'.tipo = "adotado"
         /\ ultima'.movimento = ultima.movimento) =>
          custo_atual' < melhor_custo]_vars

(* the move (0, 1), alone in a list of capacity 1 and so the move of the    *)
(* previous adoption, has just been adopted again after a restart          *)
C14_Witness ==
  /\ pc = "estagnacao"
  /\ matriz_custos = MatrizLonga
  /\ tamanho_tabu = 1
  /\ reinicios = 1
  /\ ultima = [tipo |-> "adotado", movimento |-> <<0, 1>>, era_tabu |-> TRUE]
  /\ lista_tabu = << <<0, 1>> >>
  /\ custo_atual = melhor_custo
  /\ melhor_custo < custo_inicial

(* C15: a selection step that adopts a neighbour replaces the best-known   *)
(* solution and cost and zeroes the counter when the new current cost is   *)
(* strictly below the best-known cost; otherwise it leaves best-known      *)
(* alone and adds exactly 1 to the counter. The counter is never negative. *)
C15_Contador ==
  /\ [](iter_sem_melhorias >= 0)
  /\ [][(pc = "selecao" /\ ultima'.tipo = "adotado") =>
          IF custo_atual' < melhor_custo
          THEN /\ melhor_solucao' = solucao_atual'
               /\ melhor_custo' = custo_atual'
               /\ iter_sem_melhorias' = 0
          ELSE /\ melhor_solucao' = melhor_solucao
               /\ melhor_custo' = melhor_custo
               /\ iter_sem_melhorias' = iter_sem_melhorias + 1]_vars

C15_Witness ==
  /\ pc = "estagnacao"
  /\ ultima.tipo = "adotado"
  /\ iter_sem_melhorias = 3
  /\ melhor_custo < custo_inicial
  /\ custo_atual > melhor_custo

(* C16: the stagnation step either changes nothing of the search state or, *)
(* only when the counter exceeds 20, installs a permutation with its cost  *)
(* as the current solution and zeroes the counter, leaving the best-known  *)
(* solution, the best-known cost and the tabu list as they were; no other  *)
(* step restarts.                                                          *)
C16_Reinicio ==
  /\ [][pc = "estagnacao" =>
          \/ /\ UNCHANGED <<solucao_atual, custo_atual, melhor_solucao, melhor_custo,
                            iter_sem_melhorias, lista_tabu, reinicios>>
          \/ /\ iter_sem_melhorias > LimiteEstagnacao
             /\ reinicios' = reinicios + 1
             /\ EhPermutacao(solucao_atual', n)
             /\ custo_atual' = SomaLiteral(matriz_custos, solucao_atual', n)
             /\ iter_sem_melhorias' = 0
             /\ UNCHANGED <<melhor_solucao, melhor_custo, lista_tabu>>]_vars
  /\ [][pc # "estagnacao" => (reinicios' = reinicios \/ reinicios' = 0)]_vars

C16_Witness ==
  /\ pc = "topo"
  /\ reinicios = 1
  /\ iter_sem_melhorias = 0
  /\ solucao_atual # melhor_solucao
  /\ custo_atual > melhor_custo
  /\ Len(lista_tabu) = 2
  /\ ultima.tipo = "adotado"

(* C17: a selection step taken when no neighbour is eligible leaves the     *)
(* current solution and cost, the best-known solution and cost, the tabu   *)
(* list and the counter unchanged and raises no error; the stagnation step *)
(* that follows advances the iteration count by one and returns to the     *)
(* termination test at the top of the loop.                                *)
C17_PulaSemAlterar ==
  /\ [][(pc = "selecao" /\ \A k \in 1..Len(VizinhosAtuais) : ~VizinhoElegivel(k)) =>
          /\ UNCHANGED <<locais, lista_tabu>>
          /\ ultima'.tipo = "pulado"
          /\ pc' = "estagnacao"]_vars
  /\ [][pc = "estagnacao" => (pc' = "topo" /\ iteracao' = iteracao + 1)]_vars

C17_Witness ==
  /\ pc = "topo"
  /\ ultima.tipo = "pulado"
  /\ n = 3
  /\ Len(lista_tabu) = 3
  /\ iteracao = 5
  /\ iter_sem_melhorias = 3
  /\ chamadas = 1

DistintosNaLista == Cardinality({lista_tabu[p] : p \in DOMAIN lista_tabu})

(* C18: with N >= 2, a selection step taken while the tabu list holds      *)
(* fewer than N*(N-1)/2 distinct moves finds an eligible neighbour and     *)
(* adopts one; a step that skips the update has N <= 1 or a list holding   *)
(* all N*(N-1)/2 moves.                                                    *)
C18_SoPulaSaturado ==
  /\ [][(pc = "selecao" /\ n >= 2 /\ DistintosNaLista < (n * (n - 1)) \div 2) =>
          /\ \E k \in 1..Len(VizinhosAtuais) : VizinhoElegivel(k)
          /\ ultima'.tipo = "adotado"
          /\ Len(solucao_atual') = n]_vars
  /\ [][(pc = "selecao" /\ ultima'.tipo = "pulado") =>
          (n <= 1 \/ DistintosNaLista = (n * (n - 1)) \div 2)]_vars

C18_Witness ==
  /\ pc = "estagnacao"
  /\ ultima.tipo = "adotado"
  /\ ~ultima.era_tabu
  /\ n = 3
  /\ tamanho_tabu = 3
  /\ Len(lista_tabu) = 3
  /\ DistintosNaLista = 2
  /\ custo_atual > melhor_custo

(* C19 as written: at the top of an iteration an elapsed time greater than *)
(* or equal to 15 seconds, or an exhausted iteration count, ends the loop  *)
(* with the search state untouched.                                        *)
C19_SaiComQuinze ==
  [][(pc = "topo" /\ (decorrido' >= LimiteTempo \/ iteracao >= max_iter)) =>
       (pc' = "done" /\ UNCHANGED <<locais, lista_tabu, iteracao, reinicios, ultima>>)]_vars

(* C19: the loop is left only from its top, exactly when the iteration     *)
(* count has reached max_iter or the elapsed time sampled there is         *)
(* strictly greater than 15 seconds; the exit changes neither the search   *)
(* state nor the tabu list and returns the best-known pair. With an        *)
(* elapsed time of exactly 15 seconds the iteration goes on to selection.  *)
C19_SaiAcimaDeQuinze ==
  /\ [][pc = "topo" =>
          IF decorrido' > LimiteTempo \/ iteracao >= max_iter
          THEN /\ pc' = "done"
               /\ retorno' = [solucao |-> melhor_solucao, custo |-> melhor_custo]
               /\ UNCHANGED <<locais, lista_tabu, iteracao, reinicios, ultima>>
          ELSE /\ pc' = "selecao"
               /\ UNCHANGED <<locais, lista_tabu, iteracao, reinicios, ultima>>]_vars
  /\ [][pc' = "done" => pc = "topo"]_vars

C19_Witness ==
  /\ pc = "done"
  /\ decorrido = LimiteTempo + 1
  /\ iteracao = 2
  /\ max_iter > 2
  /\ ultima.tipo = "adotado"
  /\ Len(lista_tabu) = 2
  /\ retorno.custo = melhor_custo

(* C20: at the end of every iteration, and so on return, the best-known    *)
(* cost is less than or equal to the current cost, restarts included.      *)
C20_MelhorAbaixoDoAtual ==
  (pc \in {"topo", "done"}) => melhor_custo <= custo_atual

====
